---- MODULE Spec2Model ----
(***************************************************************************)
(* Model of scientific_pydantic.slice: SliceAdapter (construction, the     *)
(* _validate and _serialize closures), the shape handlers _from_mapping,   *)
(* _from_str, _from_sequence, and the slice_syntax codec they call.        *)
(*                                                                         *)
(* Python values are records [k, n, s] with the same fields for every kind *)
(* so that any two values can be compared: k is the kind ("none", "int",   *)
(* "float", "str", "obj"), n the number of an int or of a float (the floats *)
(* of the model are whole), s the characters of a str (a sequence of       *)
(* one-character strings).                                                 *)
(***************************************************************************)
EXTENDS Integers, Sequences, FiniteSets

VARIABLES
  cfg,     \* the constructor's arguments (default_type, start_type, ...)
  self,    \* the adapter's fields: _default_adapter, _start_adapter, ...
  built,   \* the TypeAdapter instances the constructor built
  op,      \* the call in progress, or "idle"
  pargs,   \* the converter and flags of the last direct codec parse
  value,   \* the last call's input
  result,  \* what the last validate (or parse) returned or raised
  dumped,  \* what the last serialize (or format) returned
  memo     \* an earlier call that is remembered: its input and its outcome

vars == <<cfg, self, built, op, pargs, value, result, dumped, memo>>

\* ---------------------------------------------------------------- bounds

\* Longest input string that is enumerated.
MaxStrLen == 4
\* Longest input sequence that is enumerated.
MaxSeqLen == 4
\* The calls that are counted after the remembered one.
MaxAge == 2

\* ---------------------------------------------------------------- values

NoneV == [k |-> "none", n |-> 0, s |-> <<>>]
IntV(i) == [k |-> "int", n |-> i, s |-> <<>>]
FloatV(i) == [k |-> "float", n |-> i, s |-> <<>>]
StrV(t) == [k |-> "str", n |-> 0, s |-> t]
ObjV == [k |-> "obj", n |-> 0, s |-> <<>>]

Whitespace == {" ", "\t", "\n"}
Digits == <<"0", "1", "2", "3", "4", "5", "6", "7", "8", "9">>

IsDigit(c) == \E i \in 1..10 : Digits[i] = c
DigitVal(c) == (CHOOSE i \in 1..10 : Digits[i] = c) - 1

\* isinstance(x, numbers.Number): int and float are numbers, None, str and
\* arbitrary objects are not.
IsNumber(v) == v.k \in {"int", "float"}

RECURSIVE NatToStr(_)
NatToStr(n) ==
  IF n < 10 THEN <<Digits[n + 1]>>
  ELSE NatToStr(n \div 10) \o <<Digits[(n % 10) + 1]>>

\* Python's str() of a value.
PyStr(v) ==
  CASE v.k = "int" -> IF v.n < 0 THEN <<"-">> \o NatToStr(-v.n) ELSE NatToStr(v.n)
    [] v.k = "float" -> (IF v.n < 0 THEN <<"-">> \o NatToStr(-v.n) ELSE NatToStr(v.n))
                          \o <<".", "0">>
    [] v.k = "none" -> <<"N", "o", "n", "e">>
    [] v.k = "str" -> v.s
    [] OTHER -> <<"<", "o", "b", "j", ">">>

RECURSIVE LStrip(_)
LStrip(t) ==
  IF t # <<>> /\ Head(t) \in Whitespace THEN LStrip(Tail(t)) ELSE t

RECURSIVE RStrip(_)
RStrip(t) ==
  IF t # <<>> /\ t[Len(t)] \in Whitespace
  THEN RStrip(SubSeq(t, 1, Len(t) - 1)) ELSE t

\* str.strip()
Strip(t) == RStrip(LStrip(t))

RECURSIVE DigitsToNat(_)
DigitsToNat(t) ==
  IF t = <<>> THEN 0
  ELSE 10 * DigitsToNat(SubSeq(t, 1, Len(t) - 1)) + DigitVal(t[Len(t)])

AllDigits(t) == t # <<>> /\ \A i \in 1..Len(t) : IsDigit(t[i])

\* The text of an integer literal: optional sign, then digits, with
\* surrounding whitespace ignored.
IsIntText(t) ==
  LET u == Strip(t) IN
  /\ u # <<>>
  /\ IF Head(u) \in {"-", "+"} THEN AllDigits(Tail(u)) ELSE AllDigits(u)

IntOfText(t) ==
  LET u == Strip(t) IN
  IF Head(u) = "-" THEN -DigitsToNat(Tail(u))
  ELSE IF Head(u) = "+" THEN DigitsToNat(Tail(u))
  ELSE DigitsToNat(u)

\* str.split(":")
RECURSIVE Split(_)
Split(t) ==
  IF t = <<>> THEN << <<>> >>
  ELSE LET rest == Split(Tail(t))
       IN IF Head(t) = ":" THEN << <<>> >> \o rest
          ELSE << <<Head(t)>> \o rest[1] >> \o Tail(rest)

\* ---------------------------------------------------------------- results

\* An exception: its kind, the type of failure within the kind, the position
\* (slot name) it carries, if any, and the input it reports.
NoErr == [kind |-> "none", type |-> "", loc |-> "", input |-> NoneV]
Err(kind, type, loc, input) == [kind |-> kind, type |-> type, loc |-> loc, input |-> input]

\* What a call that yields a triple returns, or the exception it raises.
Ret(val) == [ok |-> TRUE, val |-> val, err |-> NoErr]
Raise(e) == [ok |-> FALSE, val |-> <<>>, err |-> e]

\* ------------------------------------------------- the slice_syntax codec

JoinColon(a, b) == a \o <<":">> \o b

\* A component's text in the canonical syntax: empty for None.
Tok(v) == IF v = NoneV THEN <<>> ELSE PyStr(v)

\* format_slice_syntax that always writes the step's colon.
format_always_three(start, stop, step) ==
  JoinColon(JoinColon(Tok(start), Tok(stop)), Tok(step))

\* format_slice_syntax(start, stop, step): "start:stop" when step is None,
\* "start:stop:step" otherwise.
format_slice_syntax(start, stop, step) ==
  IF step = NoneV THEN JoinColon(Tok(start), Tok(stop))
  ELSE JoinColon(JoinColon(Tok(start), Tok(stop)), Tok(step))

\* The converter applied to one non-empty token: str keeps the token, int
\* reads an integer literal and rejects anything else.
Convert(converter, slot, tok) ==
  IF converter = "int"
  THEN IF IsIntText(tok) THEN Ret(IntV(IntOfText(tok)))
       ELSE Raise(Err("syntax", "converter", slot, StrV(tok)))
  ELSE Ret(StrV(tok))

\* parse_slice_syntax(value, converter=..., require_start=..., require_stop=...)
parse_slice_syntax(text, converter, require_start, require_stop) ==
  LET parts == Split(text)
      start == Strip(parts[1])
      stop == Strip(parts[2])
      step == IF Len(parts) = 3 THEN Strip(parts[3]) ELSE <<>>
      conv(slot, tok) == IF tok = <<>> THEN Ret(NoneV) ELSE Convert(converter, slot, tok)
      c1 == conv("start", start)
      c2 == conv("stop", stop)
      c3 == conv("step", step)
  IN IF Len(parts) \notin {2, 3} THEN Raise(Err("syntax", "colons", "", StrV(text)))
     ELSE IF require_start /\ start = <<>> THEN Raise(Err("syntax", "required", "start", StrV(text)))
     ELSE IF require_stop /\ stop = <<>> THEN Raise(Err("syntax", "required", "stop", StrV(text)))
     ELSE IF ~c1.ok THEN c1
     ELSE IF ~c2.ok THEN c2
     ELSE IF ~c3.ok THEN c3
     ELSE Ret(<<c1.val, c2.val, c3.val>>)

\* ------------------------------------------------- coercion capabilities

NoAdapter == [type |-> "", id |-> 0]

\* pydantic.TypeAdapter(t): a new instance, told apart by its serial number.
TypeAdapter(t, serial) == [type |-> t, id |-> serial]

\* TypeAdapter(int).validate_python(v), lax mode. Its ValidationError names
\* the adapter's type and the input; its location is empty.
IntValidate(v) ==
  CASE v.k = "int" -> Ret(v)
    [] v.k = "float" -> Ret(IntV(v.n))
    [] v.k = "str" /\ IsIntText(v.s) -> Ret(IntV(IntOfText(v.s)))
    [] OTHER -> Raise(Err("capability", "int", "", v))

\* TypeAdapter(float).validate_python(v), lax mode. The only numeric texts
\* that reach it are integer literals.
FloatValidate(v) ==
  CASE v.k = "float" -> Ret(v)
    [] v.k = "int" -> Ret(FloatV(v.n))
    [] v.k = "str" /\ IsIntText(v.s) -> Ret(FloatV(IntOfText(v.s)))
    [] OTHER -> Raise(Err("capability", "float", "", v))

validate_python(adapter, v) ==
  IF adapter.type = "int" THEN IntValidate(v) ELSE FloatValidate(v)

\* ------------------------------------------------- SliceAdapter.__init__

\* str is the plain sentinel; "None" is an override that was not given.
DefaultTypes == {"str", "int", "float"}
OverrideTypes == {"None", "str", "int", "float"}

\* The order in which the distinct types are given their instances.
TypeRank(t) == CASE t = "int" -> 1 [] t = "float" -> 2 [] OTHER -> 0

\* adapters = {t: pydantic.TypeAdapter(t) for t in distinct_types
\*             if t not in (None, str)}
BuildAdapters(default_type, start_type, stop_type, step_type) ==
  LET distinct_types == {default_type, start_type, stop_type, step_type}
  IN [t \in {u \in distinct_types : u \notin {"None", "str"}} |->
        TypeAdapter(t, TypeRank(t))]

\* A slot that builds an adapter of its own for its type.
SlotAdapterOwn(adapters, slot_type, default_adapter) ==
  IF slot_type \notin {"str", "None"} THEN TypeAdapter(slot_type, 3) ELSE default_adapter

\* The adapter a slot gets: its own type's, or the default adapter.
SlotAdapter(adapters, slot_type, default_adapter) ==
  IF slot_type \notin {"str", "None"} THEN adapters[slot_type] ELSE default_adapter

SliceAdapterInit(default_type, start_type, stop_type, step_type) ==
  LET adapters == BuildAdapters(default_type, start_type, stop_type, step_type)
      default_adapter == IF default_type # "str" THEN adapters[default_type] ELSE NoAdapter
  IN [default_adapter |-> default_adapter,
      start_adapter |-> SlotAdapter(adapters, start_type, default_adapter),
      stop_adapter |-> SlotAdapter(adapters, stop_type, default_adapter),
      step_adapter |-> SlotAdapter(adapters, step_type, default_adapter)]

\* ------------------------------------------------- inputs

\* A caller's value: a slice (items: its three components), a Mapping (map),
\* a str (text), a Sequence (items), or anything else (items: the value).
EmptyMap == [x \in {} |-> NoneV]
NoValue == [kind |-> "nothing", items |-> <<>>, map |-> EmptyMap, text |-> <<>>]
SliceOf(t) == [kind |-> "slice", items |-> t, map |-> EmptyMap, text |-> <<>>]
MappingOf(m) == [kind |-> "mapping", items |-> <<>>, map |-> m, text |-> <<>>]
StrOf(t) == [kind |-> "str", items |-> <<>>, map |-> EmptyMap, text |-> t]
SequenceOf(t) == [kind |-> "seq", items |-> t, map |-> EmptyMap, text |-> <<>>]
OtherOf(v) == [kind |-> "other", items |-> <<v>>, map |-> EmptyMap, text |-> <<>>]

\* ------------------------------------------------- the shape handlers

\* dict.get(key): None for a missing key.
Get(m, key) == IF key \in DOMAIN m THEN m[key] ELSE NoneV

\* _from_mapping that ignores the keys it does not know.
from_mapping_any_key(m) ==
  Ret(<<Get(m, "start"), Get(m, "stop"), Get(m, "step")>>)

from_mapping(m) ==
  IF \E x \in DOMAIN m : x \notin {"start", "stop", "step"}
  THEN Raise(Err("key", "", "", NoneV))
  ELSE Ret(<<Get(m, "start"), Get(m, "stop"), Get(m, "step")>>)

\* _from_str that does not require the stop token.
from_str_stop_optional(text) ==
  LET r == parse_slice_syntax(text, "str", FALSE, FALSE)
  IN IF r.ok THEN Ret(<<r.val[1], r.val[2], r.val[3]>>)
     ELSE Raise(Err("syntax", r.err.type, r.err.loc, r.err.input))

from_str(text) ==
  LET r == parse_slice_syntax(text, "str", FALSE, TRUE)
  IN IF r.ok THEN Ret(<<r.val[1], r.val[2], r.val[3]>>)
     ELSE Raise(Err("syntax", r.err.type, r.err.loc, r.err.input))

\* Returns tuple(value): as many elements as the sequence has.
from_sequence(items) ==
  IF 1 <= Len(items) /\ Len(items) <= 3 THEN Ret(items)
  ELSE Raise(Err("length", "", "", NoneV))

\* start, stop, step = <call>: the call's exception, or ValueError when the
\* tuple it returned does not have exactly three elements.
Unpack3(r) ==
  IF ~r.ok THEN r
  ELSE IF Len(r.val) = 3 THEN r
  ELSE Raise(Err("unpack", "", "", NoneV))

\* ------------------------------------------------- _validate, _serialize

\* What validate returned or raised: ok and val (the slice's components), or
\* err; raw is the triple the shape handler extracted and calls the
\* validate_python calls made, in order.
NoResult == [ok |-> FALSE, val |-> <<>>, err |-> NoErr, raw |-> <<>>, calls |-> <<>>]

\* The raw triple of a value that is not a slice.
Extract(v) ==
  CASE v.kind = "mapping" -> Unpack3(from_mapping(v.map))
    [] v.kind = "str" -> Unpack3(from_str(v.text))
    [] v.kind = "seq" -> Unpack3(from_sequence(v.items))
    [] OTHER -> Raise(Err("shape", "", "", NoneV))

\* if x is not None and self._x_adapter is not None:
\*     x = self._x_adapter.validate_python(x)
\* after the slots before it (st); an exception of an earlier slot stands.
CoerceSlot(adapter, slot, v, st) ==
  IF ~st.ok THEN st
  ELSE IF v # NoneV /\ adapter # NoAdapter
  THEN LET r == validate_python(adapter, v)
           call == [slot |-> slot, adapter |-> adapter, input |-> v]
       IN IF r.ok
          THEN [st EXCEPT !.val = Append(@, r.val), !.calls = Append(@, call)]
          ELSE [st EXCEPT !.ok = FALSE, !.val = <<>>, !.err = r.err,
                          !.calls = Append(@, call)]
  ELSE [st EXCEPT !.val = Append(@, v)]

\* A slot's coercion that keeps the raw value when the adapter rejects it.
CoerceSlotLenient(adapter, slot, v, st) ==
  IF ~st.ok THEN st
  ELSE IF v # NoneV /\ adapter # NoAdapter
  THEN LET r == validate_python(adapter, v)
           call == [slot |-> slot, adapter |-> adapter, input |-> v]
       IN [st EXCEPT !.val = Append(@, IF r.ok THEN r.val ELSE v),
                     !.calls = Append(@, call)]
  ELSE [st EXCEPT !.val = Append(@, v)]

\* The three slots coerced without stopping at a rejection.
CoerceLenient(slf, raw) ==
  LET s0 == [NoResult EXCEPT !.ok = TRUE, !.raw = raw]
      s1 == CoerceSlotLenient(slf.start_adapter, "start", raw[1], s0)
      s2 == CoerceSlotLenient(slf.stop_adapter, "stop", raw[2], s1)
  IN CoerceSlotLenient(slf.step_adapter, "step", raw[3], s2)

Coerce(slf, raw) ==
  LET s0 == [NoResult EXCEPT !.ok = TRUE, !.raw = raw]
      s1 == CoerceSlot(slf.start_adapter, "start", raw[1], s0)
      s2 == CoerceSlot(slf.stop_adapter, "stop", raw[2], s1)
  IN CoerceSlot(slf.step_adapter, "step", raw[3], s2)

\* _validate that coerces the components of a slice like those of a sequence.
validate_coerce_slice(slf, v) ==
  IF v.kind = "slice" THEN Coerce(slf, v.items)
  ELSE LET ext == Extract(v)
       IN IF ~ext.ok THEN [NoResult EXCEPT !.err = ext.err]
          ELSE Coerce(slf, ext.val)

validate(slf, v) ==
  IF v.kind = "slice" THEN [NoResult EXCEPT !.ok = TRUE, !.val = v.items]
  ELSE LET ext == Extract(v)
       IN IF ~ext.ok THEN [NoResult EXCEPT !.err = ext.err]
          ELSE Coerce(slf, ext.val)

\* _serialize that compacts as soon as one component is None or a number.
serialize_any_plain(v) ==
  IF \E i \in 1..3 : v.items[i] = NoneV \/ IsNumber(v.items[i])
  THEN StrOf(format_slice_syntax(v.items[1], v.items[2], v.items[3]))
  ELSE MappingOf([start |-> v.items[1], stop |-> v.items[2], step |-> v.items[3]])

\* The compact string, or the mapping of the three components.
serialize(v) ==
  IF \A i \in 1..3 : v.items[i] = NoneV \/ IsNumber(v.items[i])
  THEN StrOf(format_slice_syntax(v.items[1], v.items[2], v.items[3]))
  ELSE MappingOf([start |-> v.items[1], stop |-> v.items[2], step |-> v.items[3]])

\* ------------------------------------------------- the enumerated inputs

Alphabet == {"5", ":", " ", "a"}
Texts == UNION {[1..n -> Alphabet] : n \in 0..MaxStrLen}

\* Components of the slices handed to validate and serialize.
SliceVals == {NoneV, IntV(-1), IntV(5), StrV(<<"a">>)}
\* Elements of sequences and values of mappings.
ElemVals == {NoneV, IntV(5), StrV(<<"a">>)}
Keys == {"start", "stop", "step", "bogus"}

Slices == {SliceOf(t) : t \in [1..3 -> SliceVals]}
Mappings == {MappingOf(m) : m \in UNION {[K -> ElemVals] : K \in SUBSET Keys}}
Strs == {StrOf(t) : t \in Texts}
Seqs == {SequenceOf(t) : t \in UNION {[1..n -> ElemVals] : n \in 0..MaxSeqLen}}
Others == {OtherOf(IntV(5)), OtherOf(ObjV)}

Inputs == Slices \cup Mappings \cup Strs \cup Seqs \cup Others

NoArgs == [converter |-> "", require_start |-> FALSE, require_stop |-> FALSE]

\* No call is remembered.
NoMemo == [kind |-> "none", input |-> NoValue, result |-> NoResult, dumped |-> NoValue,
           age |-> 0]

\* ------------------------------------------------- the adapter's calls

Init ==
  \E d \in DefaultTypes : \E a, b, c \in OverrideTypes :
    /\ cfg = [default_type |-> d, start_type |-> a, stop_type |-> b, step_type |-> c]
    /\ self = SliceAdapterInit(d, a, b, c)
    /\ built = {BuildAdapters(d, a, b, c)[t] : t \in DOMAIN BuildAdapters(d, a, b, c)}
    /\ op = "idle"
    /\ pargs = NoArgs
    /\ value = NoValue
    /\ result = NoResult
    /\ dumped = NoValue
    /\ memo = NoMemo

\* A validate that, when it fails, leaves the adapter without its start
\* adapter.
ValidateForgetting(v) ==
  /\ op = "idle"
  /\ op' = "validate"
  /\ value' = v
  /\ result' = validate(self, v)
  /\ dumped' = NoValue
  /\ self' = IF validate(self, v).ok THEN self
             ELSE [self EXCEPT !.start_adapter = NoAdapter]
  /\ UNCHANGED <<cfg, built, pargs>>

\* A model's field is validated from the value v.
Validate(v) ==
  /\ op = "idle"
  /\ op' = "validate"
  /\ value' = v
  /\ result' = validate(self, v)
  /\ dumped' = NoValue
  /\ UNCHANGED <<cfg, self, built, pargs>>

\* A model holding the slice x is dumped in JSON mode.
Serialize(x) ==
  /\ op = "idle"
  /\ op' = "serialize"
  /\ value' = x
  /\ dumped' = serialize(x)
  /\ result' = NoResult
  /\ UNCHANGED <<cfg, self, built, pargs>>

\* The value just dumped is validated again.
Revalidate ==
  /\ op = "serialize"
  /\ op' = "revalidate"
  /\ result' = validate(self, dumped)
  /\ UNCHANGED <<cfg, self, built, pargs, value, dumped>>

\* The call returns to the caller; its argument and outcome are the caller's.
Return ==
  /\ op # "idle"
  /\ op' = "idle"
  /\ value' = NoValue
  /\ result' = NoResult
  /\ dumped' = NoValue
  /\ UNCHANGED <<cfg, self, built, pargs>>

Next ==
  \/ \E v \in Inputs : Validate(v) /\ UNCHANGED memo
  \/ \E x \in Slices : Serialize(x) /\ UNCHANGED memo
  \/ Revalidate /\ UNCHANGED memo
  \/ Return /\ UNCHANGED memo

Spec == Init /\ [][Next]_vars

\* ------------------------------------------------- the codec's direct calls

\* Components of the triples handed to format.
NumVals == {NoneV, IntV(-1), IntV(5), IntV(12)}
NumTriples == [1..3 -> NumVals]
Converters == {"str", "int"}

\* The outcome of a parse, in the shape of result.
ParseResult(r) == [NoResult EXCEPT !.ok = r.ok, !.val = r.val, !.err = r.err]

CodecInit ==
  /\ cfg = [default_type |-> "str", start_type |-> "None", stop_type |-> "None",
            step_type |-> "None"]
  /\ self = SliceAdapterInit("str", "None", "None", "None")
  /\ built = {}
  /\ op = "idle"
  /\ pargs = NoArgs
  /\ value = NoValue
  /\ result = NoResult
  /\ dumped = NoValue
  /\ memo = NoMemo

\* format_slice_syntax(start, stop, step) is called on the triple x.
Format(x) ==
  /\ op = "idle"
  /\ op' = "format"
  /\ value' = SliceOf(x)
  /\ dumped' = StrOf(format_slice_syntax(x[1], x[2], x[3]))
  /\ UNCHANGED <<cfg, self, built, pargs, result>>

\* The string just formatted is parsed with the converter int.
ParseFormatted ==
  /\ op = "format"
  /\ op' = "parse_formatted"
  /\ pargs' = [converter |-> "int", require_start |-> FALSE, require_stop |-> FALSE]
  /\ result' = ParseResult(parse_slice_syntax(dumped.text, "int", FALSE, FALSE))
  /\ UNCHANGED <<cfg, self, built, value, dumped>>

\* parse_slice_syntax(t, converter=c, require_start=rs, require_stop=rp)
Parse(t, c, rs, rp) ==
  /\ op = "idle"
  /\ op' = "parse"
  /\ value' = StrOf(t)
  /\ pargs' = [converter |-> c, require_start |-> rs, require_stop |-> rp]
  /\ result' = ParseResult(parse_slice_syntax(t, c, rs, rp))
  /\ UNCHANGED <<cfg, self, built, dumped>>

\* The triple just parsed is formatted.
FormatParsed ==
  /\ op = "parse"
  /\ result.ok
  /\ op' = "format_parsed"
  /\ dumped' = StrOf(format_slice_syntax(result.val[1], result.val[2], result.val[3]))
  /\ UNCHANGED <<cfg, self, built, pargs, value, result>>

CodecReturn ==
  /\ op # "idle"
  /\ op' = "idle"
  /\ pargs' = NoArgs
  /\ value' = NoValue
  /\ result' = NoResult
  /\ dumped' = NoValue
  /\ UNCHANGED <<cfg, self, built>>

CodecNext ==
  \/ \E x \in NumTriples : Format(x) /\ UNCHANGED memo
  \/ ParseFormatted /\ UNCHANGED memo
  \/ \E t \in Texts : \E c \in Converters : \E rs, rp \in BOOLEAN :
       Parse(t, c, rs, rp) /\ UNCHANGED memo
  \/ FormatParsed /\ UNCHANGED memo
  \/ CodecReturn /\ UNCHANGED memo

CodecSpec == CodecInit /\ [][CodecNext]_vars

\* ------------------------------------------------- sequences of calls

\* The inputs of the calls that are followed over a sequence of calls: one of
\* each shape, some that validate and some that fail, under some adapter.
ProbeInputs ==
  {StrOf(<<":", "5">>), StrOf(<<"5">>),
   MappingOf([start |-> StrV(<<"a">>)]),
   SequenceOf(<<NoneV, IntV(5), StrV(<<"a">>)>>),
   SliceOf(<<StrV(<<"a">>), IntV(5), NoneV>>),
   OtherOf(ObjV)}
ProbeSlices ==
  {SliceOf(<<NoneV, IntV(5), NoneV>>), SliceOf(<<IntV(-1), NoneV, IntV(5)>>),
   SliceOf(<<IntV(5), StrV(<<"a">>), NoneV>>)}

\* The call that was just made, as a memo of age 0.
MemoOfCall(kind, input, res, dmp) ==
  [kind |-> kind, input |-> input, result |-> res, dumped |-> dmp, age |-> 0]

\* One more call was made since the remembered one.
Aged(m) ==
  IF m.kind = "none" THEN m
  ELSE [m EXCEPT !.age = IF @ < MaxAge THEN @ + 1 ELSE @]

\* The call just made is remembered in place of the memo, or the memo is kept.
Remember(kind, input, res, dmp) ==
  memo' \in {Aged(memo), MemoOfCall(kind, input, res, dmp)}

SessionNext ==
  \/ \E v \in ProbeInputs : Validate(v) /\ Remember("validate", v, result', NoValue)
  \/ \E x \in ProbeSlices : Serialize(x) /\ Remember("serialize", x, NoResult, dumped')
  \/ Revalidate /\ Remember("validate", dumped, result', NoValue)
  \/ Return /\ UNCHANGED memo

\* Any sequence of validate and serialize calls on one adapter.
SessionSpec == Init /\ [][SessionNext]_vars

\* ------------------------------------------------- notions the properties use

\* The input of the validate call in progress.
Input == IF op = "revalidate" THEN dumped ELSE value

Validating == op \in {"validate", "revalidate"}

SlotName == <<"start", "stop", "step">>
SlotAdapters == <<self.start_adapter, self.stop_adapter, self.step_adapter>>

\* Every slot of the adapter coerces to int.
SlotsAreInt == \A i \in 1..3 : SlotAdapters[i].type = "int"

\* The validate call failed before any slot was coerced.
ShapeFailure == ~result.ok /\ result.err.kind # "capability"

\* ------------------------------------------------- C1

\* The four shapes of C1 for the stop value 5.
C1_Shapes ==
  {StrOf(<<":", "5">>), MappingOf([stop |-> IntV(5)]),
   SequenceOf(<<NoneV, IntV(5)>>), SliceOf(<<NoneV, IntV(5), NoneV>>)}

\* C1: for an adapter whose slots coerce to int, validate(":5"),
\* validate({"stop": 5}), validate([None, 5]) and validate(slice(None, 5, None))
\* all succeed and all yield slice(None, 5, None).
C1_ShapeEquivalence ==
  (op = "validate" /\ SlotsAreInt /\ value \in C1_Shapes)
    => (result.ok /\ result.val = <<NoneV, IntV(5), NoneV>>)

\* ------------------------------------------------- C2

\* C2: for an adapter whose slots coerce to int and a slice x whose components
\* are each None or an int, validating what serialize(x) returned succeeds and
\* yields x.
C2_RoundTrip ==
  (op = "revalidate" /\ SlotsAreInt
     /\ \A i \in 1..3 : value.items[i].k \in {"none", "int"})
    => (result.ok /\ result.val = value.items)

\* ------------------------------------------------- C5

\* A sequence's elements followed by None up to three slots.
PadNone(items) == [i \in 1..3 |-> IF i <= Len(items) THEN items[i] ELSE NoneV]

\* C5: validate on a sequence of 1 to 3 elements gets past the shape check with
\* the elements mapped in order to the first slots and None in the others
\* (succeeding when no slot is coerced); on a sequence of 0 or of 4 or more
\* elements it fails.
C5_SequencePositional ==
  (op = "validate" /\ value.kind = "seq")
    => IF 1 <= Len(value.items) /\ Len(value.items) <= 3
       THEN /\ ~ShapeFailure
            /\ result.raw = PadNone(value.items)
            /\ (\A i \in 1..3 : SlotAdapters[i] = NoAdapter)
                 => (result.ok /\ result.val = PadNone(value.items))
       ELSE ShapeFailure

\* ------------------------------------------------- C3

\* The positions of the colons of a text.
Colons(t) == {i \in 1..Len(t) : t[i] = ":"}

\* Position i of t holds whitespace next to a colon or to an end of the text,
\* with nothing but whitespace in between.
AroundToken(t, i) ==
  /\ t[i] \in Whitespace
  /\ \/ \E j \in (Colons(t) \cup {0}) :
          j < i /\ \A m \in (j + 1)..i : t[m] \in Whitespace
     \/ \E j \in (Colons(t) \cup {Len(t) + 1}) :
          j > i /\ \A m \in i..(j - 1) : t[m] \in Whitespace

\* t without the whitespace around its tokens and colons.
RECURSIVE DropFrom(_, _)
DropFrom(t, i) ==
  IF i > Len(t) THEN <<>>
  ELSE (IF AroundToken(t, i) THEN <<>> ELSE <<t[i]>>) \o DropFrom(t, i + 1)

Normalized(t) == DropFrom(t, 1)

\* The text ends in a second colon with nothing after it.
TrailingEmptyStep(t) ==
  LET u == Normalized(t) IN
  Cardinality(Colons(u)) = 2 /\ u[Len(u)] = ":"

\* The text format emits: start:stop, and :step when step is not None.
Emitted(x) ==
  Tok(x[1]) \o <<":">> \o Tok(x[2])
    \o (IF x[3] = NoneV THEN <<>> ELSE <<":">> \o Tok(x[3]))

Between(t, a, b) == SubSeq(t, a + 1, b - 1)

Blank(t) == \A i \in 1..Len(t) : t[i] \in Whitespace

\* The colons of t in order, then the position after its end.
FirstColon(t) == CHOOSE i \in Colons(t) : \A j \in Colons(t) : i <= j
SecondColon(t) ==
  IF Cardinality(Colons(t)) = 1 THEN Len(t) + 1
  ELSE CHOOSE i \in Colons(t) \ {FirstColon(t)} : \A j \in Colons(t) \ {FirstColon(t)} : i <= j

StartText(t) == Between(t, 0, FirstColon(t))
StopText(t) == Between(t, FirstColon(t), SecondColon(t))
StepText(t) == Between(t, SecondColon(t), Len(t) + 1)

\* A token as a raw slot value: None when blank, else its trimmed text.
RawOf(tok) == IF Blank(tok) THEN NoneV ELSE StrV(Strip(tok))

RawOfKey(m, key) == IF \E k \in DOMAIN m : k = key THEN m[key] ELSE NoneV

\* C6: validate on a mapping fails when the mapping has a key other than
\* "start", "stop", "step"; otherwise it is accepted with each present key's
\* value as that slot's raw value and None for each missing key (succeeding
\* with exactly these when no slot is coerced).
C6_MappingKeys ==
  (op = "validate" /\ value.kind = "mapping")
    => IF DOMAIN value.map \subseteq {"start", "stop", "step"}
       THEN /\ ~ShapeFailure
            /\ result.raw = [i \in 1..3 |-> RawOfKey(value.map, SlotName[i])]
            /\ (\A i \in 1..3 : SlotAdapters[i] = NoAdapter)
                 => (result.ok /\ result.val = result.raw)
       ELSE ShapeFailure /\ result.err.kind = "key" /\ result.calls = <<>>

\* {"start": 5, "step": "a"} was validated by an adapter that coerces nothing.
C6_Witness ==
  /\ op = "validate"
  /\ value = MappingOf([start |-> IntV(5), step |-> StrV(<<"a">>)])
  /\ result.ok
  /\ result.val = <<IntV(5), NoneV, StrV(<<"a">>)>>

\* ------------------------------------------------- C7

\* C7: serialize returns the compact string exactly when each of start, stop,
\* step is None or a number, and otherwise the mapping of the three components
\* as they are.
C7_CompactOrStructured ==
  op = "serialize"
    => LET x == value.items
           plain == \A i \in 1..3 : x[i].k \in {"none", "int", "float"}
       IN /\ dumped.kind = "str" <=> plain
          /\ dumped.kind \in {"str", "mapping"}
          /\ plain => dumped = StrOf(Emitted(x))
          /\ ~plain => dumped = MappingOf([start |-> x[1], stop |-> x[2], step |-> x[3]])

\* A slice with a number and a non-number was serialized to the mapping.
C7_Witness ==
  /\ op = "serialize"
  /\ value.items = <<IntV(5), StrV(<<"a">>), NoneV>>
  /\ dumped.kind = "mapping"
  /\ dumped.map["start"] = IntV(5)

\* ------------------------------------------------- C8

\* The slots whose raw value is present and is rejected by the slot's adapter.
Rejected ==
  {i \in 1..3 : /\ result.raw[i] # NoneV
                /\ SlotAdapters[i] # NoAdapter
                /\ ~validate_python(SlotAdapters[i], result.raw[i]).ok}

FirstRejected == CHOOSE i \in Rejected : \A j \in Rejected : i <= j

\* C8 as stated: when a present slot's raw value is rejected by the slot's
\* adapter, validate fails with an error that carries the failing slot's name,
\* at the first such slot, and returns no slice.
C8_ErrorNamesSlot ==
  (Validating /\ result.raw # <<>> /\ Rejected # {})
    => /\ ~result.ok
       /\ result.val = <<>>
       /\ result.err.kind = "capability"
       /\ result.err.loc = SlotName[FirstRejected]

\* C8 amended: when a present slot's raw value is rejected by the slot's
\* adapter, validate fails with that adapter's own error for the first such
\* slot, which reports the rejected value and names no slot; no later slot is
\* coerced and no slice is returned.
C8_FirstRejectionAborts ==
  (Validating /\ result.raw # <<>>)
    => IF Rejected = {} THEN result.ok
       ELSE /\ ~result.ok
            /\ result.val = <<>>
            /\ result.err = validate_python(SlotAdapters[FirstRejected],
                                            result.raw[FirstRejected]).err
            /\ result.err.input = result.raw[FirstRejected]
            /\ result.err.loc = ""
            /\ result.calls # <<>>
            /\ result.calls[Len(result.calls)].slot = SlotName[FirstRejected]
            /\ \A c \in 1..Len(result.calls) :
                 \E i \in 1..FirstRejected : result.calls[c].slot = SlotName[i]

\* A mapping whose start and step are both rejected by int failed at start.
C8_Witness ==
  /\ op = "validate"
  /\ value = MappingOf([start |-> StrV(<<"a">>), stop |-> IntV(5), step |-> StrV(<<"a">>)])
  /\ SlotsAreInt
  /\ Rejected = {1, 3}
  /\ ~result.ok
  /\ Len(result.calls) = 1

\* ------------------------------------------------- C9

\* The slot's raw value went through the slot's adapter.
Coerced(i) ==
  /\ \E c \in 1..Len(result.calls) :
       result.calls[c] = [slot |-> SlotName[i], adapter |-> SlotAdapters[i],
                          input |-> result.raw[i]]
  /\ result.val[i] = validate_python(SlotAdapters[i], result.raw[i]).val

\* C9: a slice handed to validate is returned as it is and no component of it
\* goes through an adapter, whatever the adapter's types; of a mapping, a
\* string or a sequence that validates, every slot that is not None and has an
\* adapter goes through it.
C9_SliceBypass ==
  Validating
    => IF Input.kind = "slice"
       THEN result.ok /\ result.val = Input.items /\ result.calls = <<>>
       ELSE result.ok
              => \A i \in 1..3 :
                   (result.raw[i] # NoneV /\ SlotAdapters[i] # NoAdapter) => Coerced(i)

\* slice("a", 5, None) came back unchanged from an int adapter, which rejects "a".
C9_Witness ==
  /\ op = "validate"
  /\ SlotsAreInt
  /\ value = SliceOf(<<StrV(<<"a">>), IntV(5), NoneV>>)
  /\ result.ok
  /\ result.val = <<StrV(<<"a">>), IntV(5), NoneV>>

\* ------------------------------------------------- C10

SlotTypes == <<cfg.start_type, cfg.stop_type, cfg.step_type>>

\* The types of the configuration that are neither absent nor the sentinel str.
Requested ==
  {cfg.default_type, cfg.start_type, cfg.stop_type, cfg.step_type} \ {"None", "str"}

\* The type a slot asks for: its override when that is given and is not the
\* sentinel, else the default type.
Effective(i) ==
  IF SlotTypes[i] \in {"None", "str"} THEN cfg.default_type ELSE SlotTypes[i]

\* C10: one adapter is built per distinct type that is not the sentinel, and
\* slots asking for the same type hold the same instance; a slot holds the
\* adapter of its override when it has one, else the default type's, and none
\* exactly when it has no override and the default type is the sentinel; a
\* slot's value goes through the slot's adapter, and only through it, and None
\* never goes through an adapter.
C10_SlotAdapterSelection ==
  /\ Cardinality(built) = Cardinality(Requested)
  /\ \A t \in Requested : \E a \in built : a.type = t
  /\ \A i \in 1..3 :
       /\ SlotAdapters[i] = NoAdapter <=> Effective(i) = "str"
       /\ SlotAdapters[i] # NoAdapter
            => SlotAdapters[i] \in built /\ SlotAdapters[i].type = Effective(i)
  /\ \A i, j \in 1..3 : Effective(i) = Effective(j) => SlotAdapters[i] = SlotAdapters[j]
  /\ (cfg.default_type # "str")
       => self.default_adapter \in built /\ self.default_adapter.type = cfg.default_type
  /\ Validating
       => /\ \A c \in 1..Len(result.calls) :
               /\ result.calls[c].input # NoneV
               /\ \E i \in 1..3 :
                    /\ result.calls[c].slot = SlotName[i]
                    /\ result.calls[c].adapter = SlotAdapters[i]
                    /\ result.calls[c].input = result.raw[i]
          /\ (result.ok /\ Input.kind # "slice")
               => \A i \in 1..3 :
                    IF Effective(i) = "str" \/ result.raw[i] = NoneV
                    THEN result.val[i] = result.raw[i]
                         /\ \A c \in 1..Len(result.calls) : result.calls[c].slot # SlotName[i]
                    ELSE Coerced(i)

\* SliceAdapter(int, start_type=float, stop_type=float) validated "5:5:5":
\* start and stop went through the one float adapter, step through the int one.
C10_Witness ==
  /\ cfg = [default_type |-> "int", start_type |-> "float", stop_type |-> "float",
            step_type |-> "None"]
  /\ Cardinality(built) = 2
  /\ self.start_adapter = self.stop_adapter
  /\ self.step_adapter = self.default_adapter
  /\ op = "revalidate"
  /\ result.ok
  /\ result.val = <<FloatV(5), FloatV(5), IntV(5)>>
  /\ Len(result.calls) = 3

\* ------------------------------------------------- C11

\* The adapter's fields and instances are those the constructor made of cfg.
AsConstructed ==
  /\ self = SliceAdapterInit(cfg.default_type, cfg.start_type, cfg.stop_type,
                             cfg.step_type)
  /\ built = {BuildAdapters(cfg.default_type, cfg.start_type, cfg.stop_type,
                            cfg.step_type)[t] :
                t \in DOMAIN BuildAdapters(cfg.default_type, cfg.start_type,
                                           cfg.stop_type, cfg.step_type)}

\* C11: after any sequence of validate and serialize calls, failed ones
\* included, the adapter's adapters are those it was constructed with, and a
\* call's outcome is that of any earlier call with the same input, whatever
\* calls were made in between.
C11_Stateless ==
  /\ AsConstructed
  /\ (Validating /\ memo.kind = "validate" /\ memo.input = Input)
       => result = memo.result
  /\ (op = "serialize" /\ memo.kind = "serialize" /\ memo.input = value)
       => dumped = memo.dumped

\* A mapping that an int adapter rejected is rejected again, in the same way,
\* two or more calls later.
C11_Witness ==
  /\ op = "validate"
  /\ SlotsAreInt
  /\ value = MappingOf([start |-> StrV(<<"a">>)])
  /\ memo.kind = "validate"
  /\ memo.input = value
  /\ memo.age >= 2
  /\ ~memo.result.ok
  /\ result = memo.result

====
